---- MODULE Spec2Model ----
(***************************************************************************)
(* Receipt processor (main.go): an in-memory slice of receipts, a submit   *)
(* handler (processReceipt), a points handler (getPoints) with the rule    *)
(* engine inline, and the lookup helper getReceiptById.                    *)
(*                                                                         *)
(* Strings are TLA+ strings; all strings used are ASCII, so Go's byte      *)
(* length len(s) and byte slicing s[a:b] coincide with Len and SubSeq.     *)
(* Identifiers are integers: n >= 1 stands for the n-th string produced by *)
(* uuid.NewString(), 0 for a string chosen by a client that is no uuid.    *)
(***************************************************************************)
EXTENDS Integers, Sequences, FiniteSets, TLC

VARIABLES receipts, nextUuid, queries, last, answers, procs

vars == <<receipts, nextUuid, queries, last, answers, procs>>

(* ------------------------------ bounds -------------------------------- *)

\* requests to processReceipt in one run of Spec / SpecConc
MaxSubmits == 2
\* requests to getPoints in one run
MaxQueries == 3
\* items per receipt in the enumerated payloads of SpecCalc
MaxItems == 2

(* ------------------------------ strings ------------------------------- *)

Char(s, i) == SubSeq(s, i, i)

Digits == {"0", "1", "2", "3", "4", "5", "6", "7", "8", "9"}

Letters ==
    {"a", "b", "c", "d", "e", "f", "g", "h", "i", "j", "k", "l", "m",
     "n", "o", "p", "q", "r", "s", "t", "u", "v", "w", "x", "y", "z",
     "A", "B", "C", "D", "E", "F", "G", "H", "I", "J", "K", "L", "M",
     "N", "O", "P", "Q", "R", "S", "T", "U", "V", "W", "X", "Y", "Z"}

\* unicode.IsSpace on the ASCII range used here
Spaces == {" ", "\t"}

\* unicode.IsLetter / unicode.IsDigit on the ASCII range
IsLetter(c) == c \in Letters
IsDigit(c) == c \in Digits

DigitVal(c) ==
    CASE c = "0" -> 0 [] c = "1" -> 1 [] c = "2" -> 2 [] c = "3" -> 3
      [] c = "4" -> 4 [] c = "5" -> 5 [] c = "6" -> 6 [] c = "7" -> 7
      [] c = "8" -> 8 [] c = "9" -> 9

IsDigits(s) == \A i \in 1..Len(s) : Char(s, i) \in Digits

RECURSIVE DigitsVal(_)
DigitsVal(s) ==
    IF Len(s) = 0 THEN 0
    ELSE 10 * DigitsVal(SubSeq(s, 1, Len(s) - 1)) + DigitVal(Char(s, Len(s)))

RECURSIVE Pow10(_)
Pow10(n) == IF n = 0 THEN 1 ELSE 10 * Pow10(n - 1)

\* strings.TrimSpace: leading and trailing white space removed
RECURSIVE TrimLeft(_)
TrimLeft(s) ==
    IF Len(s) > 0 /\ Char(s, 1) \in Spaces THEN TrimLeft(SubSeq(s, 2, Len(s))) ELSE s

RECURSIVE TrimRight(_)
TrimRight(s) ==
    IF Len(s) > 0 /\ Char(s, Len(s)) \in Spaces
    THEN TrimRight(SubSeq(s, 1, Len(s) - 1)) ELSE s

TrimSpace(s) == TrimRight(TrimLeft(s))

\* The sign of a number literal ("+" or "-") and the rest of the string.
HasSign(s) == Len(s) > 0 /\ Char(s, 1) \in {"+", "-"}
Unsigned(s) == IF HasSign(s) THEN SubSeq(s, 2, Len(s)) ELSE s
SignOf(s) == IF HasSign(s) /\ Char(s, 1) = "-" THEN -1 ELSE 1

(***************************************************************************)
(* strconv.ParseFloat(s, 64) on decimal literals without exponent: an      *)
(* optional sign, digits with at most one ".", at least one digit. The     *)
(* value is the exact rational num / den. The other forms ParseFloat takes *)
(* (exponents, hexadecimal, "inf", "nan", "_") contain the characters e,   *)
(* E, x, X, p, P, i, I, n, N or _ and no input of the model is of such a   *)
(* form. The float64 operations of getPoints are exact on the values used: *)
(* a multiple of 0.25 is a float64, a decimal d with few digits that is no *)
(* multiple is further from one than the rounding error, and d * 0.2 is an *)
(* integer only when d is one (5n * fl(0.2) rounds to n).                  *)
(***************************************************************************)
ParseFloat(s) ==
    LET u == Unsigned(s)
        dots == {i \in 1..Len(u) : Char(u, i) = "."}
        dot == IF dots = {} THEN Len(u) + 1 ELSE CHOOSE i \in dots : TRUE
        ip == SubSeq(u, 1, dot - 1)
        fp == SubSeq(u, dot + 1, Len(u))
        ok == /\ Cardinality(dots) <= 1
              /\ IsDigits(ip) /\ IsDigits(fp)
              /\ Len(ip) + Len(fp) >= 1
    IN IF ok
       THEN [ok |-> TRUE,
             num |-> SignOf(s) * (DigitsVal(ip) * Pow10(Len(fp)) + DigitsVal(fp)),
             den |-> Pow10(Len(fp))]
       ELSE [ok |-> FALSE, num |-> 0, den |-> 1]

\* strconv.Atoi: an optional sign and at least one decimal digit
Atoi(s) ==
    LET u == Unsigned(s)
    IN IF Len(u) >= 1 /\ IsDigits(u)
       THEN [ok |-> TRUE, val |-> SignOf(s) * DigitsVal(u)]
       ELSE [ok |-> FALSE, val |-> 0]

\* Go's integer remainder truncates toward zero: (-3) % 2 is -1
GoRem(a, b) == IF a >= 0 THEN a % b ELSE -((-a) % b)

\* math.Mod(f, 1) == 0 and math.Mod(f, .25) == 0 on the rational f
IsWhole(f) == f.num % f.den = 0
IsQuarterMultiple(f) == (4 * f.num) % f.den = 0

\* The variant that rounds to the nearest integer, halves up.
RoundFifth(f) == (2 * f.num + 5 * f.den) \div (10 * f.den)

\* int(math.Ceil(f * .2))
CeilFifth(f) == -((-f.num) \div (5 * f.den))

(* ------------------------------ receipts ------------------------------ *)

\* The outcomes of a request: the HTTP status and, for a failure, its message.
MsgNotFound == "No receipt found for that id"
MsgInvalidReceipt == "The receipt is invalid"
MsgTotal == "Unable to calculate points (invalid total)"
MsgPrice == "Unable to calculate points (invalid item price(s))"
MsgDate == "Unable to calculate points (invalid date of purchase)"
MsgTime == "Unable to calculate points (invalid time of purchase)"
MsgPanic == "runtime error: slice bounds out of range"

Scored(n) == [kind |-> "OK", msg |-> "", points |-> n]
Failed(m) == [kind |-> "BadRequest", msg |-> m, points |-> 0]
\* A panic in a handler is recovered by the router made with gin.Default():
\* the request is answered 500 and the handler's remaining statements are
\* not run.
Panicked == [kind |-> "Panic", msg |-> MsgPanic, points |-> 0]

(* ------------------------- the rules of getPoints --------------------- *)

\* one point for every alphanumeric character of the retailer name
RetailerPoints(retailer) ==
    Cardinality({i \in 1..Len(retailer) :
                    IsLetter(Char(retailer, i)) \/ IsDigit(Char(retailer, i))})

\* 50 for a round total, 25 for a multiple of 0.25
TotalPoints(f) ==
    (IF IsWhole(f) THEN 50 ELSE 0) + (IF IsQuarterMultiple(f) THEN 25 ELSE 0)

\* 5 points for every two items
PairPoints(items) == (Len(items) \div 2) * 5

\* whether the loop over the items parses the price of this item
PriceIsRead(item) == Len(TrimSpace(item.ShortDescription)) % 3 = 0

\* The loop over the items: the points of the items read, or the failure of
\* the first item read whose price does not parse.
RECURSIVE ItemsLoop(_, _)
ItemsLoop(items, acc) ==
    IF Len(items) = 0 THEN Scored(acc)
    ELSE LET item == Head(items)
         IN IF PriceIsRead(item)
            THEN LET priceFloat == ParseFloat(item.Price)
                 IN IF ~priceFloat.ok THEN Failed(MsgPrice)
                    ELSE ItemsLoop(Tail(items), acc + CeilFifth(priceFloat))
            ELSE ItemsLoop(Tail(items), acc)

\* 6 points if the day, characters 8 and 9 of the date, is odd
DayStep(r, acc) ==
    IF Len(r.PurchaseDate) < 10 THEN Panicked
    ELSE LET dayInt == Atoi(SubSeq(r.PurchaseDate, 9, 10))
         IN IF ~dayInt.ok THEN Failed(MsgDate)
            ELSE Scored(acc + (IF GoRem(dayInt.val, 2) = 1 THEN 6 ELSE 0))

\* 10 points if the hour, characters 0 and 1 of the time, is 14 or 15
HourStep(r, acc) ==
    IF Len(r.PurchaseTime) < 2 THEN Panicked
    ELSE LET hourInt == Atoi(SubSeq(r.PurchaseTime, 1, 2))
         IN IF ~hourInt.ok THEN Failed(MsgTime)
            ELSE Scored(acc + (IF hourInt.val = 14 \/ hourInt.val = 15 THEN 10 ELSE 0))

\* The variant that looks at the time before the date.
HourThenDay(r, acc) ==
    LET h == HourStep(r, acc)
    IN IF h.kind # "OK" THEN h ELSE DayStep(r, h.points)

\* the date, then the time
DayThenHour(r, acc) ==
    LET d == DayStep(r, acc)
    IN IF d.kind # "OK" THEN d ELSE HourStep(r, d.points)

\* The calculation of getPoints, from the running tally at 0 to the tally
\* that is saved, stopping at the first failure.
CalculatePoints(r) ==
    LET totalFloat == ParseFloat(r.Total)
    IN IF ~totalFloat.ok THEN Failed(MsgTotal)
       ELSE LET loop == ItemsLoop(r.Items,
                            RetailerPoints(r.Retailer) + TotalPoints(totalFloat)
                                + PairPoints(r.Items))
            IN IF loop.kind # "OK" THEN loop ELSE DayThenHour(r, loop.points)

(* ------------------------------ the store ----------------------------- *)

(***************************************************************************)
(* A stored receipt is the struct receipt with two history fields that the *)
(* program does not hold: gen, the identifier uuid.NewString() produced in *)
(* the handler that stored the record, and calcs, the number of times the  *)
(* calculation of getPoints was completed and saved for the record.        *)
(***************************************************************************)
ZeroReceipt ==
    [Retailer |-> "", PurchaseDate |-> "", PurchaseTime |-> "", Items |-> <<>>,
     Total |-> "", ID |-> 0, Points |-> 0, gen |-> 0, calcs |-> 0]

(***************************************************************************)
(* context.BindJSON(&newReceipt) for a payload that decodes: every field   *)
(* the payload carries is written over the struct's, "id" and "points"     *)
(* included; a field it lacks keeps the struct's value. A payload gives    *)
(* ID and Points as a sequence, empty when the JSON object lacks the key.  *)
(***************************************************************************)
BindJSON(newReceipt, p) ==
    [newReceipt EXCEPT
        !.Retailer = p.Retailer,
        !.PurchaseDate = p.PurchaseDate,
        !.PurchaseTime = p.PurchaseTime,
        !.Items = p.Items,
        !.Total = p.Total,
        !.ID = IF Len(p.ID) = 0 THEN @ ELSE p.ID[1],
        !.Points = IF Len(p.Points) = 0 THEN @ ELSE p.Points[1]]

\* The variant of the lookup that returns the last match.
getReceiptByIdLast(id) ==
    LET hits == {i \in 1..Len(receipts) : receipts[i].ID = id}
    IN IF hits = {} THEN 0 ELSE CHOOSE i \in hits : \A j \in hits : j <= i

\* The index of the first stored receipt with this ID, 0 when there is none.
getReceiptById(id) ==
    LET hits == {i \in 1..Len(receipts) : receipts[i].ID = id}
    IN IF hits = {} THEN 0 ELSE CHOOSE i \in hits : \A j \in hits : i <= j

Response(op, id, res, calc) ==
    [op |-> op, id |-> id, kind |-> res.kind, msg |-> res.msg,
     points |-> res.points, calc |-> calc]

Idle == [pc |-> "idle", rec |-> ZeroReceipt, snap |-> <<>>]

Init ==
    /\ receipts = <<>>
    /\ nextUuid = 1
    /\ queries = 0
    /\ last = Response("none", 0, Scored(0), FALSE)
    /\ answers = {}
    /\ procs = [g \in 1..MaxSubmits |-> Idle]

\* processReceipt with a payload that BindJSON decodes
processReceipt(p) ==
    /\ nextUuid <= MaxSubmits
    /\ LET newId == nextUuid
           newReceipt == BindJSON([ZeroReceipt EXCEPT !.ID = newId, !.gen = newId], p)
       IN /\ receipts' = Append(receipts, newReceipt)
          /\ last' = Response("processReceipt", newId, Scored(0), FALSE)
    /\ nextUuid' = nextUuid + 1
    /\ UNCHANGED <<queries, answers, procs>>

\* processReceipt with a body that BindJSON rejects
processReceiptInvalid ==
    /\ nextUuid <= MaxSubmits
    /\ last' = Response("processReceipt", nextUuid, Failed(MsgInvalidReceipt), FALSE)
    /\ nextUuid' = nextUuid + 1
    /\ UNCHANGED <<receipts, queries, answers, procs>>

\* getPoints for the path parameter id
getPoints(id) ==
    /\ queries < MaxQueries
    /\ queries' = queries + 1
    /\ LET i == getReceiptById(id)
       IN IF i = 0
          THEN /\ last' = Response("getPoints", id,
                                   [kind |-> "NotFound", msg |-> MsgNotFound, points |-> 0],
                                   FALSE)
               /\ UNCHANGED <<receipts, answers>>
          ELSE IF receipts[i].Points # 0
          THEN /\ last' = Response("getPoints", id, Scored(receipts[i].Points), FALSE)
               /\ answers' = answers \cup {<<id, receipts[i].Points, Len(receipts)>>}
               /\ UNCHANGED receipts
          ELSE LET res == CalculatePoints(receipts[i])
               IN /\ last' = Response("getPoints", id, res, TRUE)
                  /\ IF res.kind = "OK"
                     THEN /\ receipts' = [receipts EXCEPT ![i].Points = res.points,
                                                          ![i].calcs = @ + 1]
                          /\ answers' = answers \cup {<<id, res.points, Len(receipts)>>}
                     ELSE UNCHANGED <<receipts, answers>>
    /\ UNCHANGED <<nextUuid, procs>>

(* ------------------------ the requests of Spec ------------------------ *)

Item(d, p) == [ShortDescription |-> d, Price |-> p]

Body(retailer, total, date, time, items) ==
    [Retailer |-> retailer, Total |-> total, PurchaseDate |-> date,
     PurchaseTime |-> time, Items |-> items]

Payload(body, id, points) ==
    [Retailer |-> body.Retailer, Total |-> body.Total,
     PurchaseDate |-> body.PurchaseDate, PurchaseTime |-> body.PurchaseTime,
     Items |-> body.Items, ID |-> id, Points |-> points]

\* a receipt whose rules all give 0 and one that scores 94
StoreBodies ==
    {Body("&", "1.01", "2022-01-02", "13:01", <<Item("ab", "1.00")>>),
     Body("T1", "9.00", "2022-01-01", "14:00", <<Item("abc", "5.00")>>)}

\* The "id" of a payload: none, a string that is no uuid, or an identifier
\* an earlier submit has handed out.
PayloadIds == {<<>>, <<0>>} \cup {<<n>> : n \in 1..(nextUuid - 1)}

\* The "points" of a payload: none, or a number.
PayloadPoints == {<<>>, <<7>>}

\* The identifiers a client asks for: its own string, every identifier handed
\* out, and one of the same format that was not.
QueryIds == 0..nextUuid

Next ==
    \/ \E b \in StoreBodies, id \in PayloadIds, pts \in PayloadPoints :
            processReceipt(Payload(b, id, pts))
    \/ processReceiptInvalid
    \/ \E id \in QueryIds : getPoints(id)

Spec == Init /\ [][Next]_vars

(* ----------------------- the requests of SpecCalc ---------------------- *)

(***************************************************************************)
(* SpecCalc: one receipt is submitted, with the five fields of a receipt   *)
(* and neither "id" nor "points", and its points are asked for. The fields *)
(* are drawn from well-formed and malformed strings, all of which BindJSON *)
(* accepts (any JSON string decodes into a string field, a missing key     *)
(* leaves "").                                                             *)
(***************************************************************************)
CalcRetailers == {"M&M 7", ""}
CalcTotals == {"35.35", "9.00", "1.25", "abc"}
CalcDates == {"2022-01-01", "2022-01-02", "2022-01-0x", "2022-01", ""}
CalcTimes == {"13:59", "14:00", "15:59", "16:00", "ab:cd", "1", ""}
CalcItems ==
    {Item("abc", "12.25"), Item("abc", "x"), Item("ab", "5.00"), Item("ab", "x"),
     Item("   ", "5.00")}

ItemLists == UNION {[1..n -> CalcItems] : n \in 0..MaxItems}

ScenarioA ==
    Body("Target", "35.35", "2022-01-01", "13:01",
         <<Item("Mountain Dew 12PK", "6.49"),
           Item("Emils Cheese Pizza", "12.25"),
           Item("Knorr Creamy Chicken", "1.26"),
           Item("Doritos Nacho Cheese", "3.35"),
           Item("   Klarbrunn 12-PK 12 FL OZ  ", "12.00")>>)

CalcBodies ==
    {Body(r, t, d, h, its) :
        r \in CalcRetailers, t \in CalcTotals, d \in CalcDates, h \in CalcTimes,
        its \in ItemLists}
    \cup {ScenarioA}

\* the identifiers handed out so far
IssuedIds == 1..(nextUuid - 1)

NextCalc ==
    \/ /\ receipts = <<>>
       /\ \E b \in CalcBodies : processReceipt(Payload(b, <<>>, <<>>))
    \/ \E id \in IssuedIds : getPoints(id)

SpecCalc == Init /\ [][NextCalc]_vars

(* ----------------------- concurrent submits: SpecConc ----------------- *)

(***************************************************************************)
(* The router runs each request on its own goroutine and receipts is a     *)
(* package variable with no lock. receipts = append(receipts, newReceipt)  *)
(* reads the slice (pointer, length, capacity), writes or copies the       *)
(* elements, and stores the new slice: two steps of a goroutine g, between *)
(* which other goroutines run. A goroutine that read the slice at length n *)
(* stores one of length n + 1 made of the n records it saw and its own,    *)
(* whether append wrote in place or into a new array.                      *)
(***************************************************************************)
Goroutines == 1..MaxSubmits

\* lines 53-63: the identifier is generated and the payload bound
ConcBind(g, p) ==
    /\ procs[g].pc = "idle"
    /\ nextUuid <= MaxSubmits
    /\ procs' = [procs EXCEPT ![g] =
                    [pc |-> "bound", snap |-> <<>>,
                     rec |-> BindJSON([ZeroReceipt EXCEPT !.ID = nextUuid,
                                                          !.gen = nextUuid], p)]]
    /\ nextUuid' = nextUuid + 1
    /\ UNCHANGED <<receipts, queries, last, answers>>

\* line 66, the operand of append: the slice is read
ConcRead(g) ==
    /\ procs[g].pc = "bound"
    /\ procs' = [procs EXCEPT ![g].pc = "read", ![g].snap = receipts]
    /\ UNCHANGED <<receipts, nextUuid, queries, last, answers>>

\* lines 66-70: the extended slice is stored and the identifier returned
ConcWrite(g) ==
    /\ procs[g].pc = "read"
    /\ receipts' = Append(procs[g].snap, procs[g].rec)
    /\ procs' = [procs EXCEPT ![g].pc = "done", ![g].snap = <<>>]
    /\ last' = Response("processReceipt", procs[g].rec.gen, Scored(0), FALSE)
    /\ UNCHANGED <<nextUuid, queries, answers>>

NextConc ==
    \/ \E g \in Goroutines, b \in StoreBodies : ConcBind(g, Payload(b, <<>>, <<>>))
    \/ \E g \in Goroutines : ConcRead(g)
    \/ \E g \in Goroutines : ConcWrite(g)
    \/ \E id \in IssuedIds : getPoints(id)

SpecConc == Init /\ [][NextConc]_vars

(* ------------------------------ properties ---------------------------- *)

\* the last request was a getPoints
Asked == last.op = "getPoints"

\* the stored receipt the last getPoints was answered from, if any
AskedFound == Asked /\ \E i \in 1..Len(receipts) : receipts[i].ID = last.id
AskedReceipt == receipts[getReceiptById(last.id)]

\* the identifiers returned by the submits that succeeded (Spec, SpecCalc)
ReturnedIds == {receipts[i].gen : i \in 1..Len(receipts)}

(* C1: round trip. A getPoints with an identifier a successful submit      *)
(* returned finds the receipt that submit stored and is never NotFound; a  *)
(* getPoints with an identifier no submit returned is NotFound.            *)
C1_RoundTrip ==
    Asked =>
        /\ last.id \in ReturnedIds =>
              /\ last.kind # "NotFound"
              /\ AskedFound /\ AskedReceipt.gen = last.id
        /\ last.id \notin ReturnedIds => last.kind = "NotFound"

(* C2: no two stored receipts have the same ID, and the ID of each is the  *)
(* identifier generated in the handler that stored it.                     *)
C2_UniqueAssignedIds ==
    \A i, j \in 1..Len(receipts) :
        /\ i # j => receipts[i].ID # receipts[j].ID
        /\ receipts[i].ID = receipts[i].gen

(* The rule sum of C3, from the claim's words: amounts in cents, the day   *)
(* and the hour read off the fixed layouts.                                *)
IsAmount(s) ==
    LET dots == {i \in 1..Len(s) : Char(s, i) = "."}
    IN \/ Len(s) >= 1 /\ IsDigits(s)
       \/ \E d \in dots :
            /\ d >= 2 /\ Len(s) - d \in 1..2
            /\ IsDigits(SubSeq(s, 1, d - 1)) /\ IsDigits(SubSeq(s, d + 1, Len(s)))

Cents(s) ==
    LET dots == {i \in 1..Len(s) : Char(s, i) = "."}
    IN IF dots = {} THEN 100 * DigitsVal(s)
       ELSE LET d == CHOOSE i \in dots : TRUE
                fp == SubSeq(s, d + 1, Len(s))
            IN 100 * DigitsVal(SubSeq(s, 1, d - 1))
                 + (IF Len(fp) = 1 THEN 10 * DigitsVal(fp) ELSE DigitsVal(fp))

IsDate(s) ==
    /\ Len(s) = 10
    /\ \A i \in {1, 2, 3, 4, 6, 7, 9, 10} : Char(s, i) \in Digits
    /\ Char(s, 5) = "-" /\ Char(s, 8) = "-"

IsTime(s) ==
    /\ Len(s) = 5
    /\ \A i \in {1, 2, 4, 5} : Char(s, i) \in Digits
    /\ Char(s, 3) = ":"

ValidReceipt(r) ==
    /\ IsAmount(r.Total) /\ IsDate(r.PurchaseDate) /\ IsTime(r.PurchaseTime)
    /\ \A k \in 1..Len(r.Items) : IsAmount(r.Items[k].Price)

RECURSIVE DescriptionBonus(_)
DescriptionBonus(items) ==
    IF Len(items) = 0 THEN 0
    ELSE (IF Len(TrimSpace(Head(items).ShortDescription)) % 3 = 0
          THEN (Cents(Head(items).Price) + 499) \div 500 ELSE 0)
         + DescriptionBonus(Tail(items))

RuleSum(r) ==
    LET hour == 10 * DigitVal(Char(r.PurchaseTime, 1)) + DigitVal(Char(r.PurchaseTime, 2))
        day == 10 * DigitVal(Char(r.PurchaseDate, 9)) + DigitVal(Char(r.PurchaseDate, 10))
    IN Cardinality({i \in 1..Len(r.Retailer) : Char(r.Retailer, i) \in Letters \cup Digits})
       + (IF Cents(r.Total) % 100 = 0 THEN 50 ELSE 0)
       + (IF Cents(r.Total) % 25 = 0 THEN 25 ELSE 0)
       + 5 * (Len(r.Items) \div 2)
       + DescriptionBonus(r.Items)
       + (IF hour \in {14, 15} THEN 10 ELSE 0)
       + (IF day % 2 = 1 THEN 6 ELSE 0)

(* C3: for a valid receipt the first getPoints answers with the sum of the *)
(* seven rule contributions; scenario A scores 28.                         *)
C3_RuleSum ==
    /\ AskedFound /\ queries = 1 /\ ValidReceipt(AskedReceipt) =>
          last.kind = "OK" /\ last.points = RuleSum(AskedReceipt)
    /\ RuleSum(ScenarioA) = 28

\* scenario A was submitted and answered
C3_Witness ==
    /\ AskedFound /\ queries = 1 /\ last.kind = "OK"
    /\ AskedReceipt.Retailer = "Target" /\ Len(AskedReceipt.Items) = 5

(* C4: the score of a stored receipt is calculated and saved at most once, *)
(* whatever the score is.                                                  *)
C4_ComputedOnce == \A i \in 1..Len(receipts) : receipts[i].calcs <= 1

(* C5: any two successful getPoints for the same identifier return the     *)
(* same integer, whatever was submitted or asked in between.               *)
C5_Idempotent ==
    \A a, b \in answers : a[1] = b[1] => a[2] = b[2]

\* Two answers for one identifier, with a submit between them that stored a
\* different receipt under the same ID.
C5_Witness ==
    \E a, b \in answers :
        /\ a[1] = b[1] /\ a[3] < b[3]
        /\ \E i, j \in 1..Len(receipts) :
              /\ i <= a[3] /\ a[3] < j /\ j <= b[3]
              /\ receipts[i].ID = a[1] /\ receipts[j].ID = a[1]
              /\ receipts[i].Retailer # receipts[j].Retailer

\* the fields of a receipt that do not parse
TotalBad(r) == ~ParseFloat(r.Total).ok
DateBad(r) == Len(r.PurchaseDate) < 10 \/ ~Atoi(SubSeq(r.PurchaseDate, 9, 10)).ok
TimeBad(r) == Len(r.PurchaseTime) < 2 \/ ~Atoi(SubSeq(r.PurchaseTime, 1, 2)).ok
AnyPriceBad(r) == \E k \in 1..Len(r.Items) : ~ParseFloat(r.Items[k].Price).ok
ReadPriceBad(r) ==
    \E k \in 1..Len(r.Items) :
        /\ Len(TrimSpace(r.Items[k].ShortDescription)) % 3 = 0
        /\ ~ParseFloat(r.Items[k].Price).ok

(* C6: getPoints on a stored receipt with an item whose price does not     *)
(* parse fails with the client-input error and returns no score, whatever  *)
(* the item's description. Stated on the receipts whose total, date and    *)
(* time parse, where the price is the only field that can fail.            *)
C6_BadPriceRejected ==
    (AskedFound /\ AnyPriceBad(AskedReceipt)
        /\ ~TotalBad(AskedReceipt) /\ ~DateBad(AskedReceipt) /\ ~TimeBad(AskedReceipt))
        => last.kind = "BadRequest" /\ last.msg = MsgPrice

BadFields(r) ==
    (IF TotalBad(r) THEN 1 ELSE 0) + (IF AnyPriceBad(r) THEN 1 ELSE 0)
        + (IF DateBad(r) THEN 1 ELSE 0) + (IF TimeBad(r) THEN 1 ELSE 0)

\* the date and the time are long enough to be sliced and neither parses
DateAndTimeBad(r) ==
    /\ Len(r.PurchaseDate) >= 10 /\ DateBad(r)
    /\ Len(r.PurchaseTime) >= 2 /\ TimeBad(r)

FirstBadRead(r) ==
    IF TotalBad(r) THEN MsgTotal
    ELSE IF ReadPriceBad(r) THEN MsgPrice
    ELSE IF DateBad(r) THEN MsgDate
    ELSE IF TimeBad(r) THEN MsgTime
    ELSE ""

C8_NoPanic ==
    (AskedFound /\ (DateBad(AskedReceipt) \/ TimeBad(AskedReceipt)))
        => last.kind = "BadRequest"

(* C9: once all concurrent submits have returned, the store holds one      *)
(* record per submit and every returned identifier is found.               *)
C9_NoLostSubmit ==
    (\A g \in Goroutines : procs[g].pc = "done") =>
        /\ Len(receipts) = Cardinality(Goroutines)
        /\ \A g \in Goroutines : getReceiptById(procs[g].rec.gen) # 0

(* C10: a receipt is stored with its points not yet computed whatever the  *)
(* payload holds, and a score returned for it is the calculator's.         *)
C10_StoredUncomputed ==
    /\ \A i \in 1..Len(receipts) : receipts[i].calcs = 0 => receipts[i].Points = 0
    /\ (AskedFound /\ last.kind = "OK") =>
            last.points = CalculatePoints(AskedReceipt).points

====
